---- MODULE Spec2Model ----
(***************************************************************************)
(* Model of add_user_to_apache_jira.py: one invocation of                  *)
(* add_user_to_jira_role(user_to_add, project_key) against a Jira server   *)
(* whose answers are chosen by the environment.                            *)
(*                                                                         *)
(* Python values are tagged records [t |-> type, v |-> value].  Strings    *)
(* the code tests or takes apart (the token, role URLs) are sequences of   *)
(* pieces; strings that it only passes along are TLA+ strings.             *)
(***************************************************************************)
EXTENDS Integers, Sequences, FiniteSets, TLC

\* ------------------------------------------------------------------ bounds
MaxUrlLen == 3
MaxRoles == 2

\* --------------------------------------------------------------- constants
JIRA_URL == "https://issues.apache.org/jira"

\* ------------------------------------------------------------ input domains
Chars == {"/", "7", "1"}
RoleNames == {"Contributors", "contributors", "Developers"}
Users == {"alice", "bob"}
ProjectKeys == {"HDDS", "HADOOP"}
StatusCodes == {200, 204, 304, 400, 401, 403, 404, 500}

PyNone == [t |-> "None", v |-> 0]
PyStr(s) == [t |-> "str", v |-> s]
PyNum(n) == [t |-> "num", v |-> n]
PyList(l) == [t |-> "list", v |-> l]
PyDict(d) == [t |-> "dict", v |-> d]

\* os.environ.get("JIRA_API_TOKEN"): None when unset, else the string
TokenValues == {PyNone, PyStr(<<>>), PyStr(<<"tokA">>), PyStr(<<"tokB">>)}

SeqsUpTo(S, n) == UNION {[1..k -> S] : k \in 0..n}

UrlStrings == SeqsUpTo(Chars, MaxUrlLen)

\* values a JSON object member can carry: a role URL, or something else.
\* Only the value of the "Contributors" member is ever read (line 54), so
\* the other members draw theirs from two representatives.
MemberValues == {PyStr(u) : u \in UrlStrings} \cup {PyNum(5)}
OtherValues == {PyStr(<<"/", "1">>), PyNum(5)}

\* a JSON object as Jira writes it: members in order, no name twice
NameSeqs ==
    {ns \in SeqsUpTo(RoleNames, MaxRoles) :
        \A i, j \in 1..Len(ns) : ns[i] = ns[j] => i = j}
Object(ns, cv, ov) ==
    [i \in 1..Len(ns) |-> <<ns[i], IF ns[i] = "Contributors" THEN cv ELSE ov[i]>>]
ObjectTexts ==
    UNION {{Object(ns, cv, ov) : ov \in [1..Len(ns) -> OtherValues]} :
              ns \in NameSeqs, cv \in MemberValues}

\* response bodies: not JSON at all (empty or not), or a JSON document
EmptyBody == [t |-> "text", v |-> <<>>]
HtmlBody == [t |-> "text", v |-> <<"<">>]
ScalarBodies == {[t |-> "null", v |-> 0], PyNum(0), PyNum(5),
                 PyList(<<>>), PyList(<<"Contributors">>)}
RolesBodies == {EmptyBody, HtmlBody} \cup ScalarBodies
                 \cup {[t |-> "object", v |-> o] : o \in ObjectTexts}
ErrorBody == [t |-> "object", v |-> <<>>]
PostBodies == {EmptyBody, ErrorBody}

\* what requests.get / requests.post can produce
NoResponse == [io |-> "none", status_code |-> 0, body |-> EmptyBody]
HttpResponse(s, b) == [io |-> "ok", status_code |-> s, body |-> b]
TransportFailure(k) == [io |-> k, status_code |-> 0, body |-> EmptyBody]
TransportFailures == {TransportFailure("ConnectionError"),
                      TransportFailure("Timeout")}

VARIABLES JIRA_API_TOKEN, user_to_add, project_key,
          pc, headers, response, roles, contributor_role_id,
          wire, out, ret

vars == <<JIRA_API_TOKEN, user_to_add, project_key, pc, headers, response,
          roles, contributor_role_id, wire, out, ret>>

\* ------------------------------------------------------------ pure helpers

\* mutants of Falsy: `is None` in place of `not`; a dict is always true
Falsy_NoneOnly(x) == x.t = "None"
Falsy_DictTruthy(x) ==
    \/ x.t = "None"
    \/ x.t = "str" /\ x.v = <<>>
    \/ x.t = "num" /\ x.v = 0
    \/ x.t = "list" /\ x.v = <<>>

\* Python truthiness, `not x`
Falsy(x) ==
    \/ x.t = "None"
    \/ x.t = "str" /\ x.v = <<>>
    \/ x.t = "num" /\ x.v = 0
    \/ x.t = "list" /\ x.v = <<>>
    \/ x.t = "dict" /\ x.v = <<>>

\* mutant of RaisesForStatus: only server errors raise
RaisesForStatus_ServerOnly(status) == status >= 500 /\ status < 600

\* response.raise_for_status(): HTTPError exactly for 4xx and 5xx
RaisesForStatus(status) == status >= 400 /\ status < 600

\* response.text is non-empty
HasText(body) == ~(body.t = "text" /\ body.v = <<>>)

\* response.json() raises (requests.exceptions.JSONDecodeError, a
\* RequestException) when the body is not JSON
JsonRaises(body) == body.t = "text"
Json(body) ==
    CASE body.t = "object" -> PyDict(body.v)
      [] body.t = "null" -> PyNone
      [] OTHER -> body

\* roles.keys()
Keys(d) == [i \in 1..Len(d) |-> d[i][1]]

\* mutant of LastSegment: s.split('/')[0]
RECURSIVE LastSegment_First(_)
LastSegment_First(s) ==
    IF s = <<>> THEN <<>>
    ELSE IF Head(s) = "/" THEN <<>>
    ELSE <<Head(s)>> \o LastSegment_First(Tail(s))

\* s.split('/')[-1]: the characters after the last '/', all of s if none
RECURSIVE LastSegment(_)
LastSegment(s) ==
    IF s = <<>> THEN <<>>
    ELSE IF s[Len(s)] = "/" THEN <<>>
    ELSE Append(LastSegment(SubSeq(s, 1, Len(s) - 1)), s[Len(s)])

\* mutant of FirstMatch: the name is compared ignoring case
FirstMatch_IgnoreCase(d) ==
    IF \E i \in 1..Len(d) : d[i][1] \in {"Contributors", "contributors"}
    THEN CHOOSE i \in 1..Len(d) :
            /\ d[i][1] \in {"Contributors", "contributors"}
            /\ \A j \in 1..(i - 1) : d[j][1] \notin {"Contributors", "contributors"}
    ELSE 0

\* index of the entry the for-loop breaks on, 0 when it runs to the end
FirstMatch(d) ==
    IF \E i \in 1..Len(d) : d[i][1] = "Contributors"
    THEN CHOOSE i \in 1..Len(d) :
            /\ d[i][1] = "Contributors"
            /\ \A j \in 1..(i - 1) : d[j][1] # "Contributors"
    ELSE 0

Msg(m, a) == [m |-> m, arg |-> a]

RolesUrl(key) == [base |-> JIRA_URL, path |-> <<"rest", "api", "2", "project">>,
                  project |-> key, tail |-> <<"role">>, id |-> <<>>]
\* mutant of AddUserUrl: the role id is left out of the path
AddUserUrl_NoId(key, id) == [base |-> JIRA_URL, path |-> <<"rest", "api", "2", "project">>,
                  project |-> key, tail |-> <<"role", "/">>, id |-> <<>>]
AddUserUrl(key, id) == [base |-> JIRA_URL, path |-> <<"rest", "api", "2", "project">>,
                  project |-> key, tail |-> <<"role", "/">>, id |-> id]

Headers(tok) == [ContentType |-> "application/json",
                 Authorization |-> <<"Bearer ">> \o tok.v]
NoHeaders == [ContentType |-> "", Authorization |-> <<>>]

Payload(user) == [user |-> <<user>>]
NoPayload == [user |-> <<>>]

Request(method, url, data, hdrs) ==
    [method |-> method, url |-> url, data |-> data, headers |-> hdrs]

\* ------------------------------------------------------------------- Init
Init ==
    /\ JIRA_API_TOKEN \in TokenValues
    /\ user_to_add \in Users
    /\ project_key \in ProjectKeys
    /\ pc = "Start"
    /\ headers = NoHeaders
    /\ response = NoResponse
    /\ roles = PyNone
    /\ contributor_role_id = PyNone
    /\ wire = <<>>
    /\ out = <<>>
    /\ ret = "running"

\* ---------------------------------------------------------------- actions

\* lines 26-38
CheckCredential ==
    /\ pc = "Start"
    /\ IF Falsy(JIRA_API_TOKEN)
       THEN /\ out' = out \o <<Msg("TokenNotSet", <<>>), Msg("ExportToken", <<>>)>>
            /\ ret' = "False"
            /\ pc' = "Failed"
            /\ UNCHANGED headers
       ELSE /\ headers' = Headers(JIRA_API_TOKEN)
            /\ out' = Append(out, Msg("FetchingRoles", <<project_key>>))
            /\ pc' = "Fetch"
            /\ UNCHANGED ret
    /\ UNCHANGED <<JIRA_API_TOKEN, user_to_add, project_key, response, roles,
                   contributor_role_id, wire>>

\* lines 40-43: requests.get(roles_url, headers=headers)
FetchRoles ==
    /\ pc = "Fetch"
    /\ \/ \E r \in TransportFailures : response' = r
       \/ \E s \in StatusCodes, b \in RolesBodies : response' = HttpResponse(s, b)
    /\ wire' = Append(wire,
           [request |-> Request("GET", RolesUrl(project_key), NoPayload, headers),
            reply |-> response'])
    /\ pc' = "RolesFetched"
    /\ UNCHANGED <<JIRA_API_TOKEN, user_to_add, project_key, headers, roles,
                   contributor_role_id, out, ret>>

Fail(msgs) ==
    /\ out' = out \o msgs
    /\ ret' = "False"
    /\ pc' = "Failed"

\* an exception no except clause of the function catches
Escape(kind) ==
    /\ ret' = kind
    /\ pc' = "Raised"
    /\ UNCHANGED out

\* lines 63-72, and 90-97 without the two lines in between
HttpErrorText(resp) == IF HasText(resp.body) THEN <<Msg("JiraResponse", <<>>)>> ELSE <<>>

RolesHttpError(resp) ==
    <<Msg("HttpError", <<>>)>>
    \o (IF resp.status_code = 404 THEN <<Msg("ProjectNotFound", <<project_key>>)>>
        ELSE IF resp.status_code \in {401, 403} THEN <<Msg("AuthOrPermission", <<>>)>>
        ELSE <<>>)
    \o HttpErrorText(resp)

\* lines 44-75
ResolveRole ==
    /\ pc = "RolesFetched"
    /\ IF response.io # "ok"
       THEN /\ Fail(<<Msg("RequestError", <<>>)>>)
            /\ UNCHANGED <<roles, contributor_role_id>>
       ELSE IF RaisesForStatus(response.status_code)
       THEN /\ Fail(RolesHttpError(response))
            /\ UNCHANGED <<roles, contributor_role_id>>
       ELSE IF JsonRaises(response.body)
       THEN /\ Fail(<<Msg("RequestError", <<>>)>>)
            /\ UNCHANGED <<roles, contributor_role_id>>
       ELSE LET rs == Json(response.body)
                i == FirstMatch(rs.v)
            IN /\ roles' = rs
               /\ IF Falsy(rs)
                  THEN /\ Fail(<<Msg("NoRoles", <<>>)>>)
                       /\ UNCHANGED contributor_role_id
                  ELSE IF rs.t # "dict"
                  THEN /\ Escape("AttributeError")
                       /\ UNCHANGED contributor_role_id
                  ELSE IF i = 0
                  THEN /\ Fail(<<Msg("RoleNotFound", <<project_key>>),
                                 Msg("AvailableRoles", Keys(rs.v))>>)
                       /\ UNCHANGED contributor_role_id
                  ELSE IF rs.v[i][2].t # "str"
                  THEN /\ Escape("AttributeError")
                       /\ UNCHANGED contributor_role_id
                  ELSE LET id == PyStr(LastSegment(rs.v[i][2].v))
                       IN /\ contributor_role_id' = id
                          /\ IF Falsy(id)
                             THEN Fail(<<Msg("FoundRole", id.v),
                                         Msg("RoleNotFound", <<project_key>>),
                                         Msg("AvailableRoles", Keys(rs.v))>>)
                             ELSE /\ out' = Append(out, Msg("FoundRole", id.v))
                                  /\ pc' = "RoleResolved"
                                  /\ UNCHANGED ret
    /\ UNCHANGED <<JIRA_API_TOKEN, user_to_add, project_key, headers, response, wire>>

\* lines 77-84: requests.post(add_user_url, data=payload, headers=headers)
PostMembership ==
    /\ pc = "RoleResolved"
    /\ \/ \E r \in TransportFailures : response' = r
       \/ \E s \in StatusCodes, b \in PostBodies : response' = HttpResponse(s, b)
    /\ wire' = Append(wire,
           [request |-> Request("POST",
                                AddUserUrl(project_key, contributor_role_id.v),
                                Payload(user_to_add), headers),
            reply |-> response'])
    /\ out' = Append(out, Msg("AddingUser", <<user_to_add>>))
    /\ pc' = "Posted"
    /\ UNCHANGED <<JIRA_API_TOKEN, user_to_add, project_key, headers, roles,
                   contributor_role_id, ret>>

\* mutant of Report: a timed-out POST is sent again
Report_Retry ==
    /\ pc = "Posted"
    /\ IF response.io = "Timeout"
       THEN /\ pc' = "RoleResolved"
            /\ UNCHANGED <<out, ret>>
       ELSE IF response.io # "ok"
       THEN Fail(<<Msg("RequestError", <<>>)>>)
       ELSE IF RaisesForStatus(response.status_code)
       THEN Fail(<<Msg("HttpError", <<>>),
                   Msg("FailedToAdd", <<response.status_code>>),
                   Msg("CheckInputs", <<>>)>> \o HttpErrorText(response))
       ELSE /\ out' = Append(out, Msg("Added", <<user_to_add>>))
            /\ ret' = "True"
            /\ pc' = "Done"
    /\ UNCHANGED <<JIRA_API_TOKEN, user_to_add, project_key, headers, response,
                   roles, contributor_role_id, wire>>

\* lines 85-100
Report ==
    /\ pc = "Posted"
    /\ IF response.io # "ok"
       THEN Fail(<<Msg("RequestError", <<>>)>>)
       ELSE IF RaisesForStatus(response.status_code)
       THEN Fail(<<Msg("HttpError", <<>>),
                   Msg("FailedToAdd", <<response.status_code>>),
                   Msg("CheckInputs", <<>>)>> \o HttpErrorText(response))
       ELSE /\ out' = Append(out, Msg("Added", <<user_to_add>>))
            /\ ret' = "True"
            /\ pc' = "Done"
    /\ UNCHANGED <<JIRA_API_TOKEN, user_to_add, project_key, headers, response,
                   roles, contributor_role_id, wire>>

Next ==
    \/ CheckCredential
    \/ FetchRoles
    \/ ResolveRole
    \/ PostMembership
    \/ Report

Spec == Init /\ [][Next]_vars

\* ------------------------------------------------- vocabulary of the claims
\* (stated on the recorded traffic and output, not with the helpers above)

Terminated == pc \in {"Done", "Failed", "Raised"}
HasMsg(m) == \E i \in 1..Len(out) : out[i].m = m
MsgArgs(m) == {out[i].arg : i \in {j \in 1..Len(out) : out[j].m = m}}

CredentialMissing == JIRA_API_TOKEN.t = "None" \/ JIRA_API_TOKEN.v = <<>>

GetSent == Len(wire) >= 1 /\ wire[1].request.method = "GET"
PostSent == \E k \in 1..Len(wire) : wire[k].request.method = "POST"
GetReply == wire[1].reply
PostReply == wire[2].reply
RolesHandled == GetSent /\ pc # "RolesFetched"

IsErrorStatus(s) == s \in 400..599
Is2xx(s) == s \in 200..299

\* the roles GET came back without a transport failure or an error status
GetSucceeded == GetSent /\ GetReply.io = "ok" /\ ~IsErrorStatus(GetReply.status_code)

\* the body of the roles reply is a JSON object
GotObject == GetSucceeded /\ GetReply.body.t = "object"
Directory == GetReply.body.v
DirectoryKeys == {Directory[i][1] : i \in 1..Len(Directory)}
\* every value of the object is a string
IsRoleDirectory == GotObject /\ \A i \in 1..Len(Directory) : Directory[i][2].t = "str"
ContributorsUrl ==
    Directory[CHOOSE i \in 1..Len(Directory) : Directory[i][1] = "Contributors"][2].v

\* id is what follows the final '/' of url (all of url when it has no '/')
IsFinalSegment(id, url) ==
    \E k \in 0..Len(url) :
        /\ k = 0 \/ url[k] = "/"
        /\ id = SubSeq(url, k + 1, Len(url))
        /\ \A j \in (k + 1)..Len(url) : url[j] # "/"
EndsInSegment(url) == url # <<>> /\ url[Len(url)] # "/"

\* ------------------------------------------------------------------ claims

\* C1: with JIRA_API_TOKEN unset or empty the call returns False and no
\* request, GET or POST, is ever put on the wire.
C1_NoRequestWithoutCredential ==
    CredentialMissing =>
        /\ wire = <<>>
        /\ pc \in {"Start", "Failed"}
        /\ pc = "Failed" => ret = "False"
C1_Witness == CredentialMissing /\ pc = "Failed" /\ HasMsg("TokenNotSet")

\* C2: a POST is on the wire only as the second request, after a roles GET
\* that came back without transport failure or error status, with a
\* non-empty object holding a "Contributors" entry, and with a role id
\* resolved; when the GET failed in any of those ways no POST is sent.
C2_GetFailed ==
    /\ GetSent
    /\ \/ GetReply.io # "ok"
       \/ IsErrorStatus(GetReply.status_code)
       \/ GetReply.body.t = "object" /\ Directory = <<>>
       \/ GetReply.body.t = "object" /\ "Contributors" \notin DirectoryKeys
C2_PostOnlyAfterRoleResolved ==
    /\ \A k \in 1..Len(wire) :
          wire[k].request.method = "POST" =>
             /\ k = 2
             /\ GotObject
             /\ "Contributors" \in DirectoryKeys
             /\ contributor_role_id.t = "str"
             /\ contributor_role_id.v # <<>>
    /\ C2_GetFailed => ~PostSent
C2_Witness ==
    /\ pc = "Failed"
    /\ Len(wire) = 1
    /\ GetReply.status_code = 404
    /\ GetReply.body.t = "object"
    /\ "Contributors" \in DirectoryKeys

\* C3: never more than one GET and one POST on the wire, and every step
\* moves the flow strictly forward.
Stage(p) ==
    CASE p = "Start" -> 0
      [] p = "Fetch" -> 1
      [] p = "RolesFetched" -> 2
      [] p = "RoleResolved" -> 3
      [] p = "Posted" -> 4
      [] OTHER -> 5
CountOf(method) == Cardinality({k \in 1..Len(wire) : wire[k].request.method = method})
C3_AtMostOneAttempt ==
    /\ [](CountOf("GET") <= 1 /\ CountOf("POST") <= 1)
    /\ [][Stage(pc') > Stage(pc)]_vars
C3_Witness ==
    /\ pc = "Failed"
    /\ Len(wire) = 2
    /\ PostReply.io = "Timeout"

\* C4 as stated: every roles reply that is a role directory with a
\* "Contributors" entry resolves to the part of its value after the final
\* '/', and the flow goes on to the POST with that id.
C4_Resolved ==
    /\ contributor_role_id.t = "str"
    /\ IsFinalSegment(contributor_role_id.v, ContributorsUrl)
    /\ \/ pc = "RoleResolved"
       \/ /\ Len(wire) = 2
          /\ wire[2].request.method = "POST"
          /\ IsFinalSegment(wire[2].request.url.id, ContributorsUrl)
C5_Orig_Non2xxPostFails ==
    /\ ret = "True" => (Len(wire) = 2 /\ PostReply.io = "ok" /\ Is2xx(PostReply.status_code))
    /\ (Terminated /\ Len(wire) = 2 /\ PostReply.io = "ok"
            /\ ~Is2xx(PostReply.status_code)) => ret = "False"

\* C6: every invocation that has ended has returned True or False, and has
\* returned False whenever a stage failed.
C6_StageFailed ==
    \/ CredentialMissing
    \/ /\ GetSent
       /\ \/ GetReply.io # "ok"
          \/ IsErrorStatus(GetReply.status_code)
          \/ GetReply.body.t # "object"
          \/ "Contributors" \notin DirectoryKeys
    \/ /\ Len(wire) = 2
       /\ PostReply.io # "ok" \/ IsErrorStatus(PostReply.status_code)
C6_Orig_EveryErrorReported ==
    Terminated =>
        /\ ret \in {"True", "False"}
        /\ pc = (IF ret = "True" THEN "Done" ELSE "Failed")
        /\ C6_StageFailed => ret = "False"

\* C7: a failed roles GET is classified: 404 as project not found, 401 and
\* 403 as authentication or permission, every other request failure (other
\* error status, transport failure, body that is not a JSON object) as a
\* plain request error; in each case False is returned.
C7_Orig_GetFailureClassified ==
    (RolesHandled /\ GetSent) =>
        /\ (GetReply.io = "ok" /\ GetReply.status_code = 404) =>
              (ret = "False" /\ HasMsg("ProjectNotFound") /\ ~HasMsg("AuthOrPermission"))
        /\ (GetReply.io = "ok" /\ GetReply.status_code \in {401, 403}) =>
              (ret = "False" /\ HasMsg("AuthOrPermission") /\ ~HasMsg("ProjectNotFound"))
        /\ (\/ GetReply.io # "ok"
            \/ IsErrorStatus(GetReply.status_code)
                  /\ GetReply.status_code \notin {401, 403, 404}
            \/ GetSucceeded /\ GetReply.body.t # "object") =>
              /\ ret = "False"
              /\ HasMsg("HttpError") \/ HasMsg("RequestError")
              /\ ~HasMsg("ProjectNotFound") /\ ~HasMsg("AuthOrPermission")
              /\ ~HasMsg("NoRoles") /\ ~HasMsg("RoleNotFound")

\* C8: a non-empty roles object without a key equal to "Contributors" ends
\* in role-not-found, the names printed as available being exactly its
\* keys, and False is returned.
C8_RoleNotFoundListsKeys ==
    (RolesHandled /\ GotObject /\ Directory # <<>>
        /\ "Contributors" \notin DirectoryKeys) =>
        /\ pc = "Failed" /\ ret = "False"
        /\ Len(wire) = 1
        /\ HasMsg("RoleNotFound") /\ ~HasMsg("NoRoles")
        /\ \E i \in 1..Len(out) :
              /\ out[i].m = "AvailableRoles"
              /\ Len(out[i].arg) = Len(Directory)
              /\ {out[i].arg[j] : j \in 1..Len(out[i].arg)} = DirectoryKeys
C8_Witness ==
    /\ pc = "Failed"
    /\ GotObject
    /\ DirectoryKeys = {"contributors", "Developers"}
    /\ HasMsg("AvailableRoles")

\* C9: an empty roles object ends in no-roles, not in role-not-found, and
\* False is returned.
C9_EmptyDirectoryNoRoles ==
    (RolesHandled /\ GotObject /\ Directory = <<>>) =>
        /\ pc = "Failed" /\ ret = "False"
        /\ Len(wire) = 1
        /\ HasMsg("NoRoles")
        /\ ~HasMsg("RoleNotFound") /\ ~HasMsg("AvailableRoles")
C9_Witness ==
    /\ pc = "Failed"
    /\ GotObject
    /\ Directory = <<>>
    /\ GetReply.status_code = 200
    /\ HasMsg("NoRoles")

\* C10: the POST goes to the role endpoint of the project the GET asked
\* about, with the id resolved from the GET's reply, the body
\* {"user": [username]} and the GET's bearer header; a 2xx reply to it ends
\* in True.
C10_PostMatchesGet ==
    \A k \in 1..Len(wire) :
        wire[k].request.method = "POST" =>
            LET get == wire[1].request
                post == wire[k].request
            IN /\ get.method = "GET"
               /\ post.url.base = JIRA_URL /\ get.url.base = JIRA_URL
               /\ post.url.path = <<"rest", "api", "2", "project">>
               /\ post.url.path = get.url.path
               /\ post.url.project = project_key
               /\ post.url.project = get.url.project
               /\ post.url.tail = get.url.tail \o <<"/">>
               /\ post.url.id # <<>>
               /\ IsFinalSegment(post.url.id, ContributorsUrl)
               /\ post.data.user = <<user_to_add>>
               /\ post.headers = get.headers
               /\ post.headers.Authorization = <<"Bearer ">> \o JIRA_API_TOKEN.v
               /\ (Terminated /\ wire[k].reply.io = "ok"
                      /\ Is2xx(wire[k].reply.status_code)) =>
                     (ret = "True" /\ pc = "Done" /\ HasMsg("Added"))
C10_Witness ==
    /\ pc = "Done"
    /\ user_to_add = "alice" /\ project_key = "HDDS"
    /\ Keys(Directory) = <<"Contributors", "Developers">>
    /\ wire[2].request.url.id = <<"7", "7">>
    /\ wire[2].request.data.user = <<"alice">>
    /\ PostReply.status_code = 204

====
